---- MODULE Spec2Model ----
(***************************************************************************)
(* The HTTP API layer of foodgram (backend/foodgram/api/views.py) as a     *)
(* state machine.  A state is the content of the persistent store plus the *)
(* last request handled and the response it got; every action is one       *)
(* request handled from permission check to response.                      *)
(*                                                                         *)
(* Models, serializers and permission classes are imported by views.py but *)
(* are not part of the file; the operators that stand for them are marked  *)
(* "storage layer", "serializer" or "permission class" below.              *)
(***************************************************************************)
EXTENDS Integers, Sequences, FiniteSets, TLC

(***************************************************************************)
(* Bounds of the model.                                                    *)
(***************************************************************************)
\* recipe ids are 1..MaxRecipes; at most MaxRecipes recipes are ever created
MaxRecipes == 2
\* join records (favorite + shopping cart + subscription) held at one time
MaxRecords == 2
\* largest amount of one IngredientAmount row
MaxAmount == 2
\* distinct raw passwords
NumPasswords == 2

(***************************************************************************)
(* Status codes used by the views.                                         *)
(***************************************************************************)
HTTP_200_OK == 200
HTTP_201_CREATED == 201
HTTP_204_NO_CONTENT == 204
HTTP_400_BAD_REQUEST == 400
HTTP_401_UNAUTHORIZED == 401
HTTP_403_FORBIDDEN == 403
HTTP_404_NOT_FOUND == 404
HTTP_500_INTERNAL_SERVER_ERROR == 500

(***************************************************************************)
(* Callers and path values.                                                *)
(***************************************************************************)
\* rows of the User table
Users == {"u1", "u2"}
\* request.user of a request that carries no credentials
AnonymousUser == "anonymous"
Callers == Users \cup {AnonymousUser}
\* values of the user_id path argument; "u0" names no user
UserIds == Users \cup {"u0"}
\* ids a Recipe row can have
RecipeIds == 1..MaxRecipes
\* values of the recipe_id path argument; MaxRecipes + 1 never names a recipe
RecipePathIds == 1..(MaxRecipes + 1)

\* the slot of a recipe id that holds no row
NoRecipe == [author |-> "none", name |-> "none"]
RecipeNames == {"soup", "cake"}

(***************************************************************************)
(* The Ingredient table: id -> (name, measurement_unit).  rank is the      *)
(* position of the name in the database's collation (eggs < flour).        *)
(***************************************************************************)
Ingredient ==
    <<[name |-> "flour", rank |-> 2, measurement_unit |-> "g"],
      [name |-> "eggs", rank |-> 1, measurement_unit |-> "pcs"],
      [name |-> "eggs", rank |-> 1, measurement_unit |-> "g"]>>
IngredientIds == DOMAIN Ingredient
NoIngredients == [i \in IngredientIds |-> 0]

VARIABLES
    password,          \* User.password: the stored (hashed) credential
    first_name,        \* User.first_name: the profile field PATCH writes
    recipes,           \* Recipe rows by id, NoRecipe where there is none
    created,           \* number of Recipe ids handed out so far
    ingredientAmount,  \* IngredientAmount rows: [recipe][ingredient] -> amount, 0 = no row
    favorite,          \* Favorite rows: (user, recipe) -> number of rows
    shopcart,          \* ShoppingCart rows: (user, recipe) -> number of rows
    subscription,      \* Subscription rows: (user, author) -> number of rows
    request,           \* the request handled last
    response           \* its response

vars == <<password, first_name, recipes, created, ingredientAmount,
          favorite, shopcart, subscription, request, response>>
usersStore == <<password, first_name>>
recipeStore == <<recipes, created, ingredientAmount>>
joinStore == <<favorite, shopcart, subscription>>
store == <<usersStore, recipeStore, joinStore>>

(***************************************************************************)
(* Requests and responses.                                                 *)
(***************************************************************************)
NoData == [author |-> "none", name |-> "none", ingredients |-> NoIngredients,
           valid |-> TRUE, current_password |-> 0, new_password |-> 0]

Request(method, view, user, recipe_id, user_id, data) ==
    [method |-> method, view |-> view, user |-> user,
     recipe_id |-> recipe_id, user_id |-> user_id, data |-> data]

NoResults == [v \in Users |-> 0]

\* Response(status=...) with no body
Response(code) ==
    [status |-> code, text |-> "", lines |-> <<>>, errors |-> {},
     filename |-> "", content_type |-> "", results |-> NoResults]

(***************************************************************************)
(* Framework and storage-layer behaviour the views rely on.                *)
(***************************************************************************)
\* permission class IsAuthenticated
IsAuthenticated(user) == user \in Users

\* SAFE_METHODS of the permission classes
IsSafeMethod(method) == method \in {"GET", "HEAD", "OPTIONS"}

\* permission class AuthorOrReadOnly, has_permission
AuthorOrReadOnly(method, user) == IsSafeMethod(method) \/ IsAuthenticated(user)

\* permission class AuthorOrReadOnly, has_object_permission
AuthorOrReadOnlyObject(method, user, author) ==
    IsSafeMethod(method) \/ author = user

RecipeExists(rid) == rid \in RecipeIds /\ recipes[rid] # NoRecipe

\* the sum of f over S
SumOver(f, S) ==
    LET RECURSIVE Go(_)
        Go(T) == IF T = {} THEN 0
                 ELSE LET k == CHOOSE k \in T : TRUE IN f[k] + Go(T \ {k})
    IN Go({k \in S : f[k] > 0})

\* number of join rows in the store
TotalRecords ==
    SumOver(favorite, DOMAIN favorite) + SumOver(shopcart, DOMAIN shopcart)
        + SumOver(subscription, DOMAIN subscription)

\* mutant: the storage layer accepts a second row for a pair
UniquePairUnchecked(rel, key) == TRUE

\* storage layer: a (user, target) pair may be saved only while no row holds it
UniquePair(rel, key) == rel[key] = 0

\* serializer.save(user=..., <target>=...): one more row for the pair
Save(rel, key) == [rel EXCEPT ![key] = @ + 1]

\* the rows a lookup matched, counted
Count(rel, keys) == SumOver(rel, keys)

\* mutant: every row of the instance's user is deleted
PerformDestroyAllOfUser(rel, key) ==
    [k \in DOMAIN rel |-> IF k[1] = key[1] THEN 0 ELSE rel[k]]

\* perform_destroy(instance): the row get_object_or_404 returned is deleted
PerformDestroy(rel, key) == [rel EXCEPT ![key] = @ - 1]

(***************************************************************************)
(* FavoriteAPIView                                                         *)
(***************************************************************************)
FavoritePermission(method, user) == IsAuthenticated(user)

\* get_object_or_404(Recipe, id=self.kwargs['recipe_id'])
FavoriteRecipe(recipe_id) == {r \in RecipeIds : r = recipe_id /\ recipes[r] # NoRecipe}

\* mutant: the lookup leaves out user=request.user
FavoriteInstanceAnyUser(user, recipe_id) ==
    {k \in DOMAIN favorite : k[2] = recipe_id /\ favorite[k] > 0}

\* get_object_or_404(Favorite, recipe=self.kwargs['recipe_id'], user=request.user)
FavoriteInstance(user, recipe_id) ==
    {k \in DOMAIN favorite : k[2] = recipe_id /\ k[1] = user /\ favorite[k] > 0}

\* POST: CreateModelMixin.create validates the payload, of which the
\* serializer takes no field, and calls perform_create; the storage layer
\* turns a second row for the pair down (taken to be answered 400)
FavoriteCreate(user, recipe_id) ==
    /\ TotalRecords < MaxRecords
    /\ request' = Request("POST", "favorite", user, recipe_id, "", NoData)
    /\ UNCHANGED <<usersStore, recipeStore, shopcart, subscription>>
    /\ IF ~FavoritePermission("POST", user)
       THEN /\ response' = Response(HTTP_401_UNAUTHORIZED)
            /\ UNCHANGED favorite
       ELSE IF FavoriteRecipe(recipe_id) = {}
       THEN /\ response' = Response(HTTP_404_NOT_FOUND)
            /\ UNCHANGED favorite
       ELSE IF ~UniquePair(favorite, <<user, recipe_id>>)
       THEN /\ response' = Response(HTTP_400_BAD_REQUEST)
            /\ UNCHANGED favorite
       ELSE /\ favorite' = Save(favorite, <<user, recipe_id>>)
            /\ response' = Response(HTTP_201_CREATED)

\* DELETE: no row is a 404; more than one row (MultipleObjectsReturned) is a
\* server error
FavoriteDestroy(user, recipe_id) ==
    /\ request' = Request("DELETE", "favorite", user, recipe_id, "", NoData)
    /\ UNCHANGED <<usersStore, recipeStore, shopcart, subscription>>
    /\ IF ~FavoritePermission("DELETE", user)
       THEN /\ response' = Response(HTTP_401_UNAUTHORIZED)
            /\ UNCHANGED favorite
       ELSE LET found == FavoriteInstance(user, recipe_id) IN
            IF Count(favorite, found) = 0
            THEN /\ response' = Response(HTTP_404_NOT_FOUND)
                 /\ UNCHANGED favorite
            ELSE IF Count(favorite, found) > 1
            THEN /\ response' = Response(HTTP_500_INTERNAL_SERVER_ERROR)
                 /\ UNCHANGED favorite
            ELSE /\ favorite' = PerformDestroy(favorite, CHOOSE k \in found : TRUE)
                 /\ response' = Response(HTTP_204_NO_CONTENT)

(***************************************************************************)
(* ShoppingCartAPIView                                                     *)
(***************************************************************************)
ShoppingCartPermission(method, user) == IsAuthenticated(user)

\* mutant: the path id is used without looking the recipe up
ShoppingCartRecipeUnchecked(recipe_id) == {recipe_id}

\* get_object_or_404(Recipe, id=self.kwargs['recipe_id'])
ShoppingCartRecipe(recipe_id) ==
    {r \in RecipeIds : r = recipe_id /\ recipes[r] # NoRecipe}

\* get_object_or_404(ShoppingCart, recipe=self.kwargs['recipe_id'], user=request.user)
ShoppingCartInstance(user, recipe_id) ==
    {k \in DOMAIN shopcart : k[2] = recipe_id /\ k[1] = user /\ shopcart[k] > 0}

ShoppingCartCreate(user, recipe_id) ==
    /\ TotalRecords < MaxRecords
    /\ request' = Request("POST", "shopping_cart", user, recipe_id, "", NoData)
    /\ UNCHANGED <<usersStore, recipeStore, favorite, subscription>>
    /\ IF ~ShoppingCartPermission("POST", user)
       THEN /\ response' = Response(HTTP_401_UNAUTHORIZED)
            /\ UNCHANGED shopcart
       ELSE IF ShoppingCartRecipe(recipe_id) = {}
       THEN /\ response' = Response(HTTP_404_NOT_FOUND)
            /\ UNCHANGED shopcart
       ELSE IF ~UniquePair(shopcart, <<user, recipe_id>>)
       THEN /\ response' = Response(HTTP_400_BAD_REQUEST)
            /\ UNCHANGED shopcart
       ELSE /\ shopcart' = Save(shopcart, <<user, recipe_id>>)
            /\ response' = Response(HTTP_201_CREATED)

ShoppingCartDestroy(user, recipe_id) ==
    /\ request' = Request("DELETE", "shopping_cart", user, recipe_id, "", NoData)
    /\ UNCHANGED <<usersStore, recipeStore, favorite, subscription>>
    /\ IF ~ShoppingCartPermission("DELETE", user)
       THEN /\ response' = Response(HTTP_401_UNAUTHORIZED)
            /\ UNCHANGED shopcart
       ELSE LET found == ShoppingCartInstance(user, recipe_id) IN
            IF Count(shopcart, found) = 0
            THEN /\ response' = Response(HTTP_404_NOT_FOUND)
                 /\ UNCHANGED shopcart
            ELSE IF Count(shopcart, found) > 1
            THEN /\ response' = Response(HTTP_500_INTERNAL_SERVER_ERROR)
                 /\ UNCHANGED shopcart
            ELSE /\ shopcart' = PerformDestroy(shopcart, CHOOSE k \in found : TRUE)
                 /\ response' = Response(HTTP_204_NO_CONTENT)

(***************************************************************************)
(* SubscribeAPIView                                                        *)
(***************************************************************************)
SubscribePermission(method, user) == AuthorOrReadOnly(method, user)

\* get_object_or_404(User, id=self.kwargs['user_id'])
SubscribeAuthor(user_id) == {v \in Users : v = user_id}

\* get_object_or_404(Subscription, author=self.kwargs['user_id'], user=request.user)
SubscribeInstance(user, user_id) ==
    {k \in DOMAIN subscription :
        k[2] = user_id /\ k[1] = user /\ subscription[k] > 0}

SubscribeCreate(user, user_id) ==
    /\ TotalRecords < MaxRecords
    /\ request' = Request("POST", "subscribe", user, 0, user_id, NoData)
    /\ UNCHANGED <<usersStore, recipeStore, favorite, shopcart>>
    /\ IF ~SubscribePermission("POST", user)
       THEN /\ response' = Response(HTTP_401_UNAUTHORIZED)
            /\ UNCHANGED subscription
       ELSE IF SubscribeAuthor(user_id) = {}
       THEN /\ response' = Response(HTTP_404_NOT_FOUND)
            /\ UNCHANGED subscription
       ELSE IF ~UniquePair(subscription, <<user, user_id>>)
       THEN /\ response' = Response(HTTP_400_BAD_REQUEST)
            /\ UNCHANGED subscription
       ELSE /\ subscription' = Save(subscription, <<user, user_id>>)
            /\ response' = Response(HTTP_201_CREATED)

SubscribeDestroy(user, user_id) ==
    /\ request' = Request("DELETE", "subscribe", user, 0, user_id, NoData)
    /\ UNCHANGED <<usersStore, recipeStore, favorite, shopcart>>
    /\ IF ~SubscribePermission("DELETE", user)
       THEN /\ response' = Response(HTTP_401_UNAUTHORIZED)
            /\ UNCHANGED subscription
       ELSE LET found == SubscribeInstance(user, user_id) IN
            IF Count(subscription, found) = 0
            THEN /\ response' = Response(HTTP_404_NOT_FOUND)
                 /\ UNCHANGED subscription
            ELSE IF Count(subscription, found) > 1
            THEN /\ response' = Response(HTTP_500_INTERNAL_SERVER_ERROR)
                 /\ UNCHANGED subscription
            ELSE /\ subscription' =
                        PerformDestroy(subscription, CHOOSE k \in found : TRUE)
                 /\ response' = Response(HTTP_204_NO_CONTENT)

(***************************************************************************)
(* RecipeViewSet                                                           *)
(***************************************************************************)
\* the ingredient lists of the recipes of the model: at most one row each,
\* of amount 1 or MaxAmount
IngredientLists ==
    {l \in [IngredientIds -> {0, 1, MaxAmount}] :
        Cardinality({i \in IngredientIds : l[i] > 0}) <= 1}

\* permission_classes = (AuthorOrReadOnly,): the check made before the handler
RecipePermission(method, user) == AuthorOrReadOnly(method, user)

\* mutant: permission_classes = (IsAuthenticated,)
RecipeObjectPermissionIsAuthenticated(method, user, author) == IsAuthenticated(user)

\* permission_classes = (AuthorOrReadOnly,): the check get_object() makes
RecipeObjectPermission(method, user, author) ==
    AuthorOrReadOnlyObject(method, user, author)

\* mutant: the payload's author is kept
KeepAuthor(data, user) == data

\* request.data['author'] = request.user.id
SetAuthor(data, user) == [data EXCEPT !.author = user]

\* serializer RecipeInteractSerializer, is_valid
RecipeInteractValid(data) == data.valid /\ data.author \in Users

\* instance.delete(): the rows that refer to the recipe go with it
Cascade(rel, recipe_id) ==
    [k \in DOMAIN rel |-> IF k[2] = recipe_id THEN 0 ELSE rel[k]]

RecipeCreate(user, data) ==
    /\ created < MaxRecipes
    /\ request' = Request("POST", "recipes", user, 0, "", data)
    /\ UNCHANGED <<usersStore, joinStore>>
    /\ IF ~RecipePermission("POST", user)
       THEN /\ response' = Response(HTTP_401_UNAUTHORIZED)
            /\ UNCHANGED recipeStore
       ELSE LET forced == SetAuthor(data, user) IN
            IF ~RecipeInteractValid(forced)
            THEN /\ response' = Response(HTTP_400_BAD_REQUEST)
                 /\ UNCHANGED recipeStore
            ELSE /\ created' = created + 1
                 /\ recipes' = [recipes EXCEPT ![created + 1] =
                                    [author |-> forced.author, name |-> forced.name]]
                 /\ ingredientAmount' =
                        [ingredientAmount EXCEPT ![created + 1] = forced.ingredients]
                 /\ response' = Response(HTTP_201_CREATED)

\* PATCH: get_object() answers 404 or checks the object permission, then the
\* serializer validates and saves
RecipePartialUpdate(user, recipe_id, data) ==
    /\ request' = Request("PATCH", "recipes", user, recipe_id, "", data)
    /\ UNCHANGED <<usersStore, joinStore, created, ingredientAmount>>
    /\ IF ~RecipePermission("PATCH", user)
       THEN /\ response' = Response(HTTP_401_UNAUTHORIZED)
            /\ UNCHANGED recipes
       ELSE IF ~RecipeExists(recipe_id)
       THEN /\ response' = Response(HTTP_404_NOT_FOUND)
            /\ UNCHANGED recipes
       ELSE IF ~RecipeObjectPermission("PATCH", user, recipes[recipe_id].author)
       THEN /\ response' = Response(HTTP_403_FORBIDDEN)
            /\ UNCHANGED recipes
       ELSE IF ~data.valid
       THEN /\ response' = Response(HTTP_400_BAD_REQUEST)
            /\ UNCHANGED recipes
       ELSE /\ recipes' = [recipes EXCEPT ![recipe_id].name = data.name]
            /\ response' = Response(HTTP_200_OK)

RecipeDestroy(user, recipe_id) ==
    /\ request' = Request("DELETE", "recipes", user, recipe_id, "", NoData)
    /\ UNCHANGED <<usersStore, created, subscription>>
    /\ IF ~RecipePermission("DELETE", user)
       THEN /\ response' = Response(HTTP_401_UNAUTHORIZED)
            /\ UNCHANGED <<recipes, ingredientAmount, favorite, shopcart>>
       ELSE IF ~RecipeExists(recipe_id)
       THEN /\ response' = Response(HTTP_404_NOT_FOUND)
            /\ UNCHANGED <<recipes, ingredientAmount, favorite, shopcart>>
       ELSE IF ~RecipeObjectPermission("DELETE", user, recipes[recipe_id].author)
       THEN /\ response' = Response(HTTP_403_FORBIDDEN)
            /\ UNCHANGED <<recipes, ingredientAmount, favorite, shopcart>>
       ELSE /\ recipes' = [recipes EXCEPT ![recipe_id] = NoRecipe]
            /\ ingredientAmount' =
                   [ingredientAmount EXCEPT ![recipe_id] = NoIngredients]
            /\ favorite' = Cascade(favorite, recipe_id)
            /\ shopcart' = Cascade(shopcart, recipe_id)
            /\ response' = Response(HTTP_204_NO_CONTENT)

\* 'V vashej korzine pusto', the body for an empty listing
EmptyCartText == "V vashej korzine pusto"
\* 'Spisok pokupok:\n', the first line of a listing
ListHeader == "Spisok pokupok:"

\* mutant: the filter leaves out the user
CartIngredientsOfAnyUser(user, cart) ==
    [k \in RecipeIds \X IngredientIds |->
        IF ingredientAmount[k[1]][k[2]] > 0
        THEN SumOver(cart, {c \in DOMAIN cart : c[2] = k[1]}) ELSE 0]

\* IngredientAmount.objects.filter(recipe__shopcart__user=request.user): the
\* IngredientAmount rows joined to the ShoppingCart rows of the user, each as
\* often as the join yields it
CartIngredients(user, cart) ==
    [k \in RecipeIds \X IngredientIds |->
        IF ingredientAmount[k[1]][k[2]] > 0 THEN cart[<<user, k[1]>>] ELSE 0]

\* .values('ingredient__name', 'ingredient__measurement_unit')
\*  .order_by('ingredient__name').annotate(ingredient_amount=Sum('amount')):
\* one row per (name, unit) of the joined rows, with the sum of their amounts
Annotated(user, cart) ==
    LET joined == CartIngredients(user, cart)
        hit == {k \in DOMAIN joined : joined[k] > 0}
        amount == [k \in DOMAIN joined |-> joined[k] * ingredientAmount[k[1]][k[2]]]
        groups == {<<Ingredient[k[2]].name, Ingredient[k[2]].measurement_unit>> : k \in hit}
        of(g) == {k \in hit : <<Ingredient[k[2]].name,
                                Ingredient[k[2]].measurement_unit>> = g}
        rank(g) == Ingredient[CHOOSE i \in IngredientIds : Ingredient[i].name = g[1]].rank
    IN {[ingredient__name |-> g[1], rank |-> rank(g),
         ingredient__measurement_unit |-> g[2],
         ingredient_amount |-> SumOver(amount, of(g))] : g \in groups}

\* mutant: no order_by
RECURSIVE Unordered(_)
Unordered(rows) ==
    IF rows = {} THEN {<<>>}
    ELSE UNION {{<<x>> \o t : t \in Unordered(rows \ {x})} : x \in rows}

\* the orders the database may return rows sorted by name in
RECURSIVE OrderByName(_)
OrderByName(rows) ==
    IF rows = {} THEN {<<>>}
    ELSE UNION {{<<x>> \o t : t \in OrderByName(rows \ {x})} :
                    x \in {y \in rows : \A z \in rows : y.rank <= z.rank}}

\* f'{name}: {amount} {m_unit}\n'
FormatLine(ingr) ==
    <<ingr.ingredient__name, ingr.ingredient_amount, ingr.ingredient__measurement_unit>>

\* the text download_shopping_cart may build for the user
ShoppingListTexts(user, cart) ==
    LET ingredients == Annotated(user, cart) IN
    IF Cardinality(ingredients) = 0
    THEN {[text |-> EmptyCartText, lines |-> <<>>]}
    ELSE {[text |-> ListHeader, lines |-> [n \in DOMAIN o |-> FormatLine(o[n])]] :
            o \in OrderByName(ingredients)}

DownloadPermission(method, user) == IsAuthenticated(user)

DownloadShoppingCart(user) ==
    /\ request' = Request("GET", "download_shopping_cart", user, 0, "", NoData)
    /\ UNCHANGED <<usersStore, recipeStore, joinStore>>
    /\ IF ~DownloadPermission("GET", user)
       THEN response' = Response(HTTP_401_UNAUTHORIZED)
       ELSE \E t \in ShoppingListTexts(user, shopcart) :
                response' = [Response(HTTP_200_OK) EXCEPT
                                !.text = t.text, !.lines = t.lines,
                                !.content_type = "text/plain",
                                !.filename = "shopping_list.txt"]

(***************************************************************************)
(* SubscriptionAPIView                                                     *)
(***************************************************************************)
SubscriptionPermission(method, user) == IsAuthenticated(user)

\* User.objects.filter(following__user=user): each user, as often as a
\* Subscription row with that author and the caller as user exists
SubscriptionQueryset(user, subs) == [v \in Users |-> subs[<<user, v>>]]

SubscriptionList(user) ==
    /\ request' = Request("GET", "subscriptions", user, 0, "", NoData)
    /\ UNCHANGED <<usersStore, recipeStore, joinStore>>
    /\ IF ~SubscriptionPermission("GET", user)
       THEN response' = Response(HTTP_401_UNAUTHORIZED)
       ELSE response' = [Response(HTTP_200_OK) EXCEPT
                            !.results = SubscriptionQueryset(user, subscription)]

(***************************************************************************)
(* UserViewSet                                                             *)
(***************************************************************************)
\* raw passwords; 0 in a payload stands for a missing field
Passwords == 1..NumPasswords
FirstNames == {"ann", "bob"}

\* make_password(raw): the encoded credential
MakePassword(raw) == [algorithm |-> "pbkdf2_sha256", digest |-> raw]

\* mutant: the current password is not checked
CheckPasswordSkipped(user, raw) == TRUE

\* user.check_password(raw)
CheckPassword(user, raw) == password[user] = MakePassword(raw)

\* user.set_password(raw); user.save()
SetUserPassword(user, raw) == [password EXCEPT ![user] = MakePassword(raw)]

\* permission class AuthorRegistrationOrReadOnly, has_permission
AuthorRegistrationOrReadOnly(method, user) ==
    IsSafeMethod(method) \/ method = "POST" \/ IsAuthenticated(user)

\* permission class AuthorRegistrationOrReadOnly, has_object_permission
AuthorRegistrationOrReadOnlyObject(method, user, obj) ==
    IsSafeMethod(method) \/ obj = user

UserPermission(method, user) == AuthorRegistrationOrReadOnly(method, user)

\* the keyword arguments the router hands to update() on PUT and, through
\* partial_update(), on PATCH
PutKwargs(user_id) == [pk |-> user_id]
PatchKwargs(user_id) == [pk |-> user_id, partial |-> TRUE]

Outcome(code, names) == [status |-> code, first_name |-> names]

\* super().update(request, *args, **kwargs)
SuperUpdate(user, kwargs, data) ==
    IF kwargs.pk \notin Users
    THEN Outcome(HTTP_404_NOT_FOUND, first_name)
    ELSE IF ~AuthorRegistrationOrReadOnlyObject("PATCH", user, kwargs.pk)
    THEN Outcome(HTTP_403_FORBIDDEN, first_name)
    ELSE IF ~data.valid
    THEN Outcome(HTTP_400_BAD_REQUEST, first_name)
    ELSE Outcome(HTTP_200_OK, [first_name EXCEPT ![kwargs.pk] = data.name])

\* UserViewSet.update; kwargs['partial'] raises KeyError when the key is absent
Update(user, kwargs, data) ==
    IF "partial" \notin DOMAIN kwargs
    THEN Outcome(HTTP_500_INTERNAL_SERVER_ERROR, first_name)
    ELSE IF kwargs.partial
    THEN SuperUpdate(user, kwargs, data)
    ELSE Outcome(HTTP_403_FORBIDDEN, first_name)

UserUpdate(user, user_id, data) ==
    /\ request' = Request("PUT", "users", user, 0, user_id, data)
    /\ UNCHANGED <<password, recipeStore, joinStore>>
    /\ IF ~UserPermission("PUT", user)
       THEN /\ response' = Response(HTTP_401_UNAUTHORIZED)
            /\ UNCHANGED first_name
       ELSE LET out == Update(user, PutKwargs(user_id), data) IN
            /\ response' = Response(out.status)
            /\ first_name' = out.first_name

UserPartialUpdate(user, user_id, data) ==
    /\ request' = Request("PATCH", "users", user, 0, user_id, data)
    /\ UNCHANGED <<password, recipeStore, joinStore>>
    /\ IF ~UserPermission("PATCH", user)
       THEN /\ response' = Response(HTTP_401_UNAUTHORIZED)
            /\ UNCHANGED first_name
       ELSE LET out == Update(user, PatchKwargs(user_id), data) IN
            /\ response' = Response(out.status)
            /\ first_name' = out.first_name

SetPasswordPermission(method, user) == IsAuthenticated(user)

\* serializer PasswordSerializer: both fields are required
PasswordSerializerErrors(data) ==
    {f \in {"current_password", "new_password"} :
        (f = "current_password" /\ data.current_password = 0)
        \/ (f = "new_password" /\ data.new_password = 0)}

SetPassword(user, data) ==
    /\ request' = Request("POST", "set_password", user, 0, "", data)
    /\ UNCHANGED <<first_name, recipeStore, joinStore>>
    /\ IF ~SetPasswordPermission("POST", user)
       THEN /\ response' = Response(HTTP_401_UNAUTHORIZED)
            /\ UNCHANGED password
       ELSE IF PasswordSerializerErrors(data) = {}
       THEN IF ~CheckPassword(user, data.current_password)
            THEN /\ response' = [Response(HTTP_400_BAD_REQUEST) EXCEPT
                                    !.errors = {"current_password"}]
                 /\ UNCHANGED password
            ELSE /\ password' = SetUserPassword(user, data.new_password)
                 /\ response' = Response(HTTP_204_NO_CONTENT)
       ELSE /\ response' = [Response(HTTP_400_BAD_REQUEST) EXCEPT
                                !.errors = PasswordSerializerErrors(data)]
            /\ UNCHANGED password

(***************************************************************************)
(* Payloads, initial states and specifications.                            *)
(***************************************************************************)
RecipeData ==
    {[NoData EXCEPT !.author = a, !.name = n, !.ingredients = l, !.valid = v] :
        a \in Users \cup {"none"}, n \in RecipeNames,
        l \in {[NoIngredients EXCEPT ![1] = MaxAmount]}, v \in BOOLEAN}

RecipePatchData ==
    {[NoData EXCEPT !.name = n, !.valid = v] : n \in RecipeNames, v \in BOOLEAN}

UserData == {[NoData EXCEPT !.name = n, !.valid = v] : n \in FirstNames, v \in BOOLEAN}

PasswordData ==
    {[NoData EXCEPT !.current_password = c, !.new_password = n] :
        c \in 0..NumPasswords, n \in 0..NumPasswords}

NoRequest == Request("NONE", "none", AnonymousUser, 0, "", NoData)
NoJoin(targets) == [k \in Users \X targets |-> 0]

InitUsers ==
    /\ password = [u \in Users |-> MakePassword(1)]
    /\ first_name = [u \in Users |-> "ann"]

InitJoins ==
    /\ favorite = NoJoin(RecipePathIds)
    /\ shopcart = NoJoin(RecipePathIds)
    /\ subscription = NoJoin(UserIds)

InitLog ==
    /\ request = NoRequest
    /\ response = Response(0)

\* the authors of the recipes the store holds at first: u1 and u2 in turn
InitAuthor(r) == IF r % 2 = 1 THEN "u1" ELSE "u2"

\* the store holds MaxRecipes recipes and no join rows
Init ==
    /\ InitUsers /\ InitJoins /\ InitLog
    /\ recipes = [r \in RecipeIds |-> [author |-> InitAuthor(r), name |-> "soup"]]
    /\ created = MaxRecipes
    /\ ingredientAmount = [r \in RecipeIds |-> NoIngredients]

Next ==
    \/ \E u \in Callers, r \in RecipePathIds : FavoriteCreate(u, r)
    \/ \E u \in Callers, r \in RecipePathIds : FavoriteDestroy(u, r)
    \/ \E u \in Callers, r \in RecipePathIds : ShoppingCartCreate(u, r)
    \/ \E u \in Callers, r \in RecipePathIds : ShoppingCartDestroy(u, r)
    \/ \E u \in Callers, v \in UserIds : SubscribeCreate(u, v)
    \/ \E u \in Callers, v \in UserIds : SubscribeDestroy(u, v)
    \/ \E u \in Callers, r \in RecipePathIds : RecipeDestroy(u, r)

Spec == Init /\ [][Next]_vars

\* the store holds users only
InitRecipe ==
    /\ InitUsers /\ InitJoins /\ InitLog
    /\ recipes = [r \in RecipeIds |-> NoRecipe]
    /\ created = 0
    /\ ingredientAmount = [r \in RecipeIds |-> NoIngredients]

NextRecipe ==
    \/ \E u \in Callers, d \in RecipeData : RecipeCreate(u, d)
    \/ \E u \in Callers, r \in RecipePathIds, d \in RecipePatchData :
            RecipePartialUpdate(u, r, d)
    \/ \E u \in Callers, r \in RecipePathIds : RecipeDestroy(u, r)

SpecRecipe == InitRecipe /\ [][NextRecipe]_vars

\* users with any credential
InitUser ==
    /\ InitJoins /\ InitLog
    /\ password \in [Users -> {MakePassword(p) : p \in Passwords}]
    /\ first_name = [u \in Users |-> "ann"]
    /\ recipes = [r \in RecipeIds |-> NoRecipe]
    /\ created = 0
    /\ ingredientAmount = [r \in RecipeIds |-> NoIngredients]

NextUser ==
    \/ \E u \in Callers, v \in UserIds, d \in UserData : UserUpdate(u, v, d)
    \/ \E u \in Callers, v \in UserIds, d \in UserData : UserPartialUpdate(u, v, d)
    \/ \E u \in Callers, d \in PasswordData : SetPassword(u, d)

SpecUser == InitUser /\ [][NextUser]_vars

\* two recipes with any ingredient lists, and no join rows
InitCart ==
    /\ InitUsers /\ InitJoins /\ InitLog
    /\ recipes = [r \in RecipeIds |->
                    IF r <= 2 THEN [author |-> InitAuthor(r), name |-> "soup"]
                    ELSE NoRecipe]
    /\ created = 2
    /\ ingredientAmount \in
            {a \in [RecipeIds -> IngredientLists] :
                \A r \in RecipeIds : r > 2 => a[r] = NoIngredients}

NextCart ==
    \/ \E u \in Users, r \in RecipeIds : ShoppingCartCreate(u, r)
    \/ \E u \in Users, r \in RecipeIds : ShoppingCartDestroy(u, r)
    \/ \E u \in Users, v \in Users : SubscribeCreate(u, v)
    \/ \E u \in Users, v \in Users : SubscribeDestroy(u, v)
    \/ \E u \in Callers : DownloadShoppingCart(u)
    \/ \E u \in Callers : SubscriptionList(u)

SpecCart == InitCart /\ [][NextCart]_vars

(***************************************************************************)
(* The claims.                                                             *)
(***************************************************************************)
JoinViews == {"favorite", "shopping_cart", "subscribe"}

\* the (user, target) pair the request that leads to the next state addresses
NextKey ==
    IF request'.view = "subscribe"
    THEN <<request'.user, request'.user_id>>
    ELSE <<request'.user, request'.recipe_id>>

\* DELETE as the claim describes it, for a relation before and after the step
DeleteContract(rel, relNext) ==
    IF rel[NextKey] = 0
    THEN /\ response'.status = HTTP_404_NOT_FOUND
         /\ store' = store
    ELSE /\ relNext = [rel EXCEPT ![NextKey] = 0]
         /\ relNext # rel
         /\ response' = Response(HTTP_204_NO_CONTENT)

\* C1: a DELETE on favorite, shopping_cart or subscribe by an authenticated
\* user for a pair that has no record answers 404 and leaves the store as it
\* is; for a pair that has a record it removes that record and nothing else of
\* the relation and answers 204 with no body.
C1_DeleteContract ==
    [][(request'.method = "DELETE" /\ request'.view \in JoinViews
            /\ request'.user \in Users)
        => CASE request'.view = "favorite" -> DeleteContract(favorite, favorite')
             [] request'.view = "shopping_cart" -> DeleteContract(shopcart, shopcart')
             [] request'.view = "subscribe" ->
                    DeleteContract(subscription, subscription')]_vars

\* a subscription was deleted while other join rows stay
C1_Witness ==
    /\ request.method = "DELETE" /\ request.view = "subscribe"
    /\ request.user \in Users
    /\ response.status = HTTP_204_NO_CONTENT
    /\ subscription[<<request.user, request.user_id>>] = 0
    /\ TotalRecords > 0

\* the path target of the request that leads to the next state names no row
NextTargetMissing ==
    IF request'.view = "subscribe"
    THEN request'.user_id \notin Users
    ELSE ~RecipeExists(request'.recipe_id)

\* C2: a POST on favorite, shopping_cart or subscribe by an authenticated user
\* whose path id names no recipe (no user) answers 404 and leaves the whole
\* store as it is.
C2_CreateMissingTarget ==
    [][(request'.method = "POST" /\ request'.view \in JoinViews
            /\ request'.user \in Users /\ NextTargetMissing)
        => (response'.status = HTTP_404_NOT_FOUND /\ store' = store)]_vars

\* a POST for a recipe that was deleted was answered 404
C2_Witness ==
    /\ request.method = "POST" /\ request.view = "shopping_cart"
    /\ request.user \in Users
    /\ request.recipe_id \in RecipeIds /\ ~RecipeExists(request.recipe_id)
    /\ response.status = HTTP_404_NOT_FOUND

\* C7: every relation holds at most one record for a (user, target) pair.
C7_UniquePairs ==
    /\ \A k \in DOMAIN favorite : favorite[k] <= 1
    /\ \A k \in DOMAIN shopcart : shopcart[k] <= 1
    /\ \A k \in DOMAIN subscription : subscription[k] <= 1

\* a second POST for a pair that has a record was turned down
C7_Witness ==
    /\ request.method = "POST" /\ request.view = "favorite"
    /\ request.user \in Users /\ RecipeExists(request.recipe_id)
    /\ response.status = HTTP_400_BAD_REQUEST
    /\ favorite[<<request.user, request.recipe_id>>] = 1

\* a relation differs before and after at most at the addressed pair
OnlyAt(rel, relNext, key) == \A k \in DOMAIN rel : k # key => relNext[k] = rel[k]

\* C9: a POST or DELETE on favorite, shopping_cart or subscribe changes at
\* most the record (caller, path target) of the addressed relation: the other
\* records of that relation, the other two relations, the recipes and the
\* users stay as they are, whatever the answer.
C9_Frame ==
    [][(request'.method \in {"POST", "DELETE"} /\ request'.view \in JoinViews)
        => /\ usersStore' = usersStore
           /\ recipeStore' = recipeStore
           /\ CASE request'.view = "favorite" ->
                     /\ OnlyAt(favorite, favorite', NextKey)
                     /\ UNCHANGED <<shopcart, subscription>>
                [] request'.view = "shopping_cart" ->
                     /\ OnlyAt(shopcart, shopcart', NextKey)
                     /\ UNCHANGED <<favorite, subscription>>
                [] request'.view = "subscribe" ->
                     /\ OnlyAt(subscription, subscription', NextKey)
                     /\ UNCHANGED <<favorite, shopcart>>]_vars

\* a favorite was deleted while the caller holds another one
C9_Witness ==
    /\ request.method = "DELETE" /\ request.view = "favorite"
    /\ response.status = HTTP_204_NO_CONTENT
    /\ \E k \in DOMAIN favorite : k[1] = request.user /\ favorite[k] > 0

\* C3: a PUT on /users/{id} answers 403 (stated for the callers that pass the
\* permission check).
C3_PutForbidden ==
    (request.method = "PUT" /\ request.view = "users" /\ request.user \in Users)
        => response.status = HTTP_403_FORBIDDEN

\* C4: set_password by an authenticated user: a payload that lacks a field
\* is answered 400 and the credential stays; a wrong current_password is
\* answered 400 with an error under current_password and the credential
\* stays; a right one is answered 204, and the credential then matches
\* new_password and no other password.
C4_SetPassword ==
    [][(request'.view = "set_password" /\ request'.user \in Users)
        => LET u == request'.user
               d == request'.data
           IN IF d.current_password = 0 \/ d.new_password = 0
              THEN /\ response'.status = HTTP_400_BAD_REQUEST
                   /\ password' = password
              ELSE IF password[u] # MakePassword(d.current_password)
              THEN /\ response'.status = HTTP_400_BAD_REQUEST
                   /\ "current_password" \in response'.errors
                   /\ password' = password
              ELSE /\ response' = Response(HTTP_204_NO_CONTENT)
                   /\ \A p \in Passwords :
                        (password'[u] = MakePassword(p)) <=> (p = d.new_password)
                   /\ \A v \in Users \ {u} : password'[v] = password[v]]_vars

\* a password was changed to another one
C4_Witness ==
    /\ request.view = "set_password" /\ request.user \in Users
    /\ response.status = HTTP_204_NO_CONTENT
    /\ request.data.new_password # request.data.current_password
    /\ password[request.user] = MakePassword(request.data.new_password)

(***************************************************************************)
(* C5 in the claim's own terms: the recipes of the cart, the (name, unit)  *)
(* pairs in them and the sum of a pair's amounts over them.                *)
(***************************************************************************)
CartOf(u) == {r \in RecipeIds : shopcart[<<u, r>>] > 0}
PairOf(i) == <<Ingredient[i].name, Ingredient[i].measurement_unit>>
PairsOf(u) ==
    {PairOf(i) : i \in {j \in IngredientIds :
                            \E r \in CartOf(u) : ingredientAmount[r][j] > 0}}
PairAmount(u, pair) ==
    LET rows == {k \in CartOf(u) \X IngredientIds : PairOf(k[2]) = pair}
        amount == [k \in rows |-> ingredientAmount[k[1]][k[2]]]
    IN SumOver(amount, rows)
NameRank(name) == Ingredient[CHOOSE i \in IngredientIds : Ingredient[i].name = name].rank

\* the listing: the header, then one line per pair with its sum, by name
IsListing(u) ==
    /\ response.text = ListHeader
    /\ Len(response.lines) = Cardinality(PairsOf(u))
    /\ \A pair \in PairsOf(u) :
          \E n \in DOMAIN response.lines :
              response.lines[n] = <<pair[1], PairAmount(u, pair), pair[2]>>
    /\ \A m, n \in DOMAIN response.lines :
          m < n => NameRank(response.lines[m][1]) <= NameRank(response.lines[n][1])

IsEmptyMessage == response.text = EmptyCartText /\ response.lines = <<>>

IsAttachment ==
    /\ response.status = HTTP_200_OK
    /\ response.content_type = "text/plain"
    /\ response.filename = "shopping_list.txt"

Downloaded ==
    request.view = "download_shopping_cart" /\ request.user \in Users

\* C5 as claimed: the empty-cart message for an empty cart, the listing for
\* every other cart.
C5_AsClaimed ==
    Downloaded
        => /\ IsAttachment
           /\ IF CartOf(request.user) = {} THEN IsEmptyMessage
              ELSE IsListing(request.user)

\* C5 as amended: the empty-cart message whenever the recipes of the cart
\* hold no ingredient amounts (the cart is empty, or its recipes have none),
\* the listing otherwise.
C5_Download ==
    Downloaded
        => /\ IsAttachment
           /\ IF PairsOf(request.user) = {} THEN IsEmptyMessage
              ELSE IsListing(request.user)

\* a listing with a line whose amount is the sum over two recipes
C5_Witness ==
    /\ Downloaded
    /\ Cardinality(CartOf(request.user)) = 2
    /\ \E n \in DOMAIN response.lines : response.lines[n][2] > MaxAmount

\* the stores that agree with rel on the rows of user u and hold any rows of
\* the other users for the targets given
AgreeOn(rel, u, targets) ==
    LET others == {k \in DOMAIN rel : k[1] # u /\ k[2] \in targets}
    IN {[k \in DOMAIN rel |-> IF k \in others THEN o[k] ELSE rel[k]] :
            o \in [others -> 0..1]}

\* C10: the read actions change nothing in the store; the body of
\* download_shopping_cart for u is one the action yields in every store that
\* agrees on u's ShoppingCart rows; the subscription list for u holds exactly
\* the users v with a Subscription (u, v), in every store that agrees on u's
\* Subscription rows.
C10_ReadOwnRecords ==
    [][(request'.view \in {"download_shopping_cart", "subscriptions"})
        => /\ store' = store
           /\ (request'.view = "download_shopping_cart" /\ request'.user \in Users)
                => \A other \in AgreeOn(shopcart, request'.user,
                                        {r \in RecipeIds : RecipeExists(r)}) :
                      [text |-> response'.text, lines |-> response'.lines]
                          \in ShoppingListTexts(request'.user, other)
           /\ (request'.view = "subscriptions" /\ request'.user \in Users)
                => /\ \A v \in Users :
                        (response'.results[v] > 0)
                            <=> (subscription[<<request'.user, v>>] > 0)
                   /\ \A other \in AgreeOn(subscription, request'.user, Users) :
                        response'.results
                            = SubscriptionQueryset(request'.user, other)]_vars

\* a listing was downloaded while another user's cart holds a recipe
C10_Witness ==
    /\ Downloaded
    /\ response.lines # <<>>
    /\ \E k \in DOMAIN shopcart : k[1] # request.user /\ shopcart[k] > 0

\* C6: on a recipe that exists, a PATCH or DELETE by an authenticated user
\* who is not its author is answered 403 and changes nothing of the store;
\* one by its author is not turned down by a permission check.
C6_AuthorOnly ==
    [][(request'.view = "recipes" /\ request'.method \in {"PATCH", "DELETE"}
            /\ request'.user \in Users /\ RecipeExists(request'.recipe_id))
        => IF recipes[request'.recipe_id].author # request'.user
           THEN response'.status = HTTP_403_FORBIDDEN /\ store' = store
           ELSE response'.status
                    \notin {HTTP_401_UNAUTHORIZED, HTTP_403_FORBIDDEN}]_vars

\* a DELETE by another user was turned down and the recipe is still there
C6_Witness ==
    /\ request.view = "recipes" /\ request.method = "DELETE"
    /\ request.user \in Users /\ RecipeExists(request.recipe_id)
    /\ recipes[request.recipe_id].author # request.user
    /\ response.status = HTTP_403_FORBIDDEN

\* C8: a POST /recipes by an authenticated user with a valid payload is
\* answered 201 and stores one recipe whose author is the caller, whatever
\* author the payload named; a recipe comes into being in no other way.
C8_AuthorIsCaller ==
    [][/\ (request'.view = "recipes" /\ request'.method = "POST"
              /\ request'.user \in Users /\ request'.data.valid)
          => /\ response'.status = HTTP_201_CREATED
             /\ created' = created + 1
             /\ recipes'[created'].author = request'.user
       /\ \A r \in RecipeIds :
            (recipes[r] = NoRecipe /\ recipes'[r] # NoRecipe)
                => /\ request'.view = "recipes" /\ request'.method = "POST"
                   /\ response'.status = HTTP_201_CREATED
                   /\ recipes'[r].author = request'.user]_vars

\* a recipe was created from a payload that names another user as author
C8_Witness ==
    /\ request.view = "recipes" /\ request.method = "POST"
    /\ response.status = HTTP_201_CREATED
    /\ request.data.author \in Users \ {request.user}
    /\ recipes[created].author = request.user

====
